---- MODULE Spec2Model ----
(***************************************************************************)
(* Model of the two maintenance scripts of divestreams-v2:                 *)
(*   scripts/clean-integrations.py  (Script A, one hard-coded route file)  *)
(*   scripts/fix-inline-mocks.py    (Script B, a glob of test files)       *)
(* File contents are TLA+ strings; the regular expressions of the scripts  *)
(* are interpreted character by character by a backtracking matcher that   *)
(* follows Python's re semantics (leftmost match, greedy / lazy            *)
(* quantifiers, non-overlapping substitution, replacement templates).      *)
(***************************************************************************)
EXTENDS Integers, Sequences, FiniteSets, TLC

VARIABLES
    \* ---- Script A (clean-integrations.py) ----
    pcA,               \* position in main(): "start","read","subst","done"
    fileA,             \* text stored at FILE_PATH
    fileA0,            \* text stored at FILE_PATH before the first run
    content,           \* local `content`
    original_content,  \* local `original_content`
    runsA,             \* completed runs of main()
    writesA,           \* times FILE_PATH was opened for writing, per run
    outA,              \* lines printed, one per completed run
    afterA,            \* text at FILE_PATH after each completed run
    \* ---- Script B (fix-inline-mocks.py) ----
    pcB,               \* position in the module body / loop body
    files,             \* the list returned by glob.glob
    idx,               \* index in `files` of file_path
    disk0,             \* text of file_path on disk when the iteration began
    disk,              \* text of file_path on disk now
    contentB,          \* local `content`
    org_id,            \* local `org_id`
    new_content,       \* local `new_content`
    count,             \* global `count`
    outB,              \* lines printed so far
    opened,            \* open(file_path, 'w') was called in this iteration
    hist               \* per finished iteration: what happened to the file

varsA == <<pcA, fileA, fileA0, content, original_content, runsA, writesA, outA, afterA>>
varsB == <<pcB, files, idx, disk0, disk, contentB, org_id, new_content, count,
           outB, opened, hist>>
vars == <<varsA, varsB>>

(***************************************************************************)
(* Regular expressions.  A pattern is a sequence of items:                 *)
(*   Lit(s)                 the literal text s                             *)
(*   Rep(c, min, max, gr)   min..max characters of class c, greedy (gr)    *)
(*                          or lazy; max = -1 is unbounded                 *)
(*   Open, Close            the parentheses of capture group 1             *)
(***************************************************************************)
Lit(str) == [t |-> "lit", s |-> str, c |-> "", min |-> 0, max |-> 0, greedy |-> TRUE]
Rep(cls, lo, hi, gr) == [t |-> "rep", s |-> "", c |-> cls, min |-> lo, max |-> hi, greedy |-> gr]
Open == [t |-> "open", s |-> "", c |-> "", min |-> 0, max |-> 0, greedy |-> TRUE]
Close == [t |-> "close", s |-> "", c |-> "", min |-> 0, max |-> 0, greedy |-> TRUE]

Whitespace == {" ", "\n", "\t", "\r", "\f"}

CharAt(s, i) == SubSeq(s, i, i)

InClass(cls, ch) ==
    CASE cls = "any" -> TRUE                                   \* . with re.DOTALL
      [] cls = "space" -> ch \in Whitespace                    \* \s
      [] cls = "notbrace" -> ch # "}"                          \* [^}]
      [] cls = "notcommaspace" -> ch # "," /\ ch \notin Whitespace   \* [^,\s]
      [] cls = "quote" -> ch \in {"\"", "'"}                   \* ["\']
      [] cls = "notquote" -> ch \notin {"\"", "'"}             \* [^"\']
      [] cls = "comma" -> ch = ","                             \* ,

NoMatch == [ok |-> FALSE, start |-> 0, end |-> 0, g |-> ""]

MinOf(S) == CHOOSE x \in S : \A y \in S : x <= y

\* the number of consecutive characters of class cls at s[pos..], at most hi
\* (hi = -1: no limit)
RunLen(cls, s, pos, hi) ==
    LET rest == Len(s) - pos + 1
        cap == IF hi < 0 \/ hi > rest THEN rest ELSE hi
    IN CHOOSE n \in 0..cap :
         /\ n = cap \/ ~InClass(cls, CharAt(s, pos + n))
         /\ \A q \in pos..(pos + n - 1) : InClass(cls, CharAt(s, q))

RECURSIVE MatchFrom(_, _, _, _, _)
\* match items k.. of re at s[pos..]; gs is where group 1 opened.  A
\* repetition backtracks over its length: a greedy one takes the longest
\* length for which the rest of the pattern matches, a lazy one the shortest.
MatchFrom(re, k, s, pos, gs) ==
    IF k > Len(re) THEN [ok |-> TRUE, start |-> 0, end |-> pos, g |-> ""]
    ELSE LET it == re[k] IN
      CASE it.t = "lit" ->
             IF pos + Len(it.s) - 1 <= Len(s) /\ SubSeq(s, pos, pos + Len(it.s) - 1) = it.s
             THEN MatchFrom(re, k + 1, s, pos + Len(it.s), gs)
             ELSE NoMatch
        [] it.t = "open" -> MatchFrom(re, k + 1, s, pos, pos)
        [] it.t = "close" ->
             LET r == MatchFrom(re, k + 1, s, pos, gs)
             IN IF r.ok THEN [r EXCEPT !.g = SubSeq(s, gs, pos - 1)] ELSE r
        [] it.t = "rep" ->
             LET run == RunLen(it.c, s, pos, it.max)
                 tries == { <<n, MatchFrom(re, k + 1, s, pos + n, gs)>> : n \in it.min..run }
                 oks == { c \in tries : c[2].ok }
             IN IF oks = {} THEN NoMatch
                ELSE IF it.greedy
                     THEN (CHOOSE c \in oks : \A d \in oks : c[1] >= d[1])[2]
                     ELSE (CHOOSE c \in oks : \A d \in oks : c[1] <= d[1])[2]

\* pattern.search(s, from): the leftmost match starting at or after `from`
Search(re, s, from) ==
    LET tries == { <<p, MatchFrom(re, 1, s, p, p)>> : p \in from..(Len(s) + 1) }
        oks == { c \in tries : c[2].ok }
    IN IF oks = {} THEN NoMatch
       ELSE LET first == CHOOSE c \in oks : \A d \in oks : c[1] <= d[1]
            IN [first[2] EXCEPT !.start = first[1]]

(***************************************************************************)
(* Replacement templates (the repl argument of re.sub).  A backslash       *)
(* starts an escape: \\ is a backslash, \n \t \r \f are control            *)
(* characters, \1..\9 refer to a capture group (an error when the pattern  *)
(* has no such group), any other ASCII letter is re.error "bad escape", a  *)
(* trailing backslash is re.error too, and a backslash before any other    *)
(* character is left alone.  The template is parsed before any match is    *)
(* looked for, so a bad template raises even when nothing matches.         *)
(* \a \b \v \0, octal escapes and \g<name> do not occur in the inputs of   *)
(* this model and are not covered (TLC reports an error if one is met).    *)
(***************************************************************************)
Digits == {"1", "2", "3", "4", "5", "6", "7", "8", "9"}
ControlEscapes == {"n", "t", "r", "f"}
BadEscapeLetters ==
    {"c", "d", "e", "h", "i", "j", "k", "l", "m", "o", "p", "q", "s", "u", "w", "x", "y", "z",
     "A", "B", "C", "D", "E", "F", "G", "H", "I", "J", "K", "L", "M", "N", "O", "P", "Q", "R",
     "S", "T", "U", "V", "W", "X", "Y", "Z"}
Unmodelled == {"a", "b", "v", "g", "0"}

\* the escape whose backslash is at repl[i]: err, or the text it stands for
\* (ref = TRUE: the text of capture group 1), and the characters it takes
EscapeAt(repl, i, ngroups) ==
    IF i = Len(repl) THEN [err |-> TRUE, ref |-> FALSE, txt |-> "", len |-> 1]
    ELSE LET c == CharAt(repl, i + 1) IN
      CASE c = "\\" -> [err |-> FALSE, ref |-> FALSE, txt |-> "\\", len |-> 2]
        [] c = "n" -> [err |-> FALSE, ref |-> FALSE, txt |-> "\n", len |-> 2]
        [] c = "t" -> [err |-> FALSE, ref |-> FALSE, txt |-> "\t", len |-> 2]
        [] c = "r" -> [err |-> FALSE, ref |-> FALSE, txt |-> "\r", len |-> 2]
        [] c = "f" -> [err |-> FALSE, ref |-> FALSE, txt |-> "\f", len |-> 2]
        [] c \in BadEscapeLetters -> [err |-> TRUE, ref |-> FALSE, txt |-> "", len |-> 2]
        [] c \in Digits ->
             IF i + 2 <= Len(repl) /\ CharAt(repl, i + 2) \in Digits \cup {"0"}
             THEN [err |-> TRUE, ref |-> FALSE, txt |-> "", len |-> 3]   \* group >= 10
             ELSE [err |-> ~(c = "1" /\ ngroups >= 1), ref |-> TRUE, txt |-> "", len |-> 2]
        [] c \notin Digits \cup ControlEscapes \cup BadEscapeLetters \cup Unmodelled \cup {"\\"} ->
             [err |-> FALSE, ref |-> FALSE, txt |-> "\\" \o c, len |-> 2]

\* the positions of the backslashes of repl
Backslashes(repl) == { i \in 1..Len(repl) : CharAt(repl, i) = "\\" }

RECURSIVE TemplateError(_, _, _)
\* re.error raised by parsing the template repl[i..]
TemplateError(repl, i, ngroups) ==
    LET bs == { b \in Backslashes(repl) : b >= i }
    IN IF bs = {} THEN FALSE
       ELSE LET e == EscapeAt(repl, MinOf(bs), ngroups)
            IN e.err \/ TemplateError(repl, MinOf(bs) + e.len, ngroups)

RECURSIVE Expand(_, _, _)
\* match.expand(repl[i..]) for a template that parses
Expand(repl, i, m) ==
    LET bs == { b \in Backslashes(repl) : b >= i }
    IN IF bs = {} THEN SubSeq(repl, i, Len(repl))
       ELSE LET j == MinOf(bs)
                e == EscapeAt(repl, j, 1)
            IN SubSeq(repl, i, j - 1) \o (IF e.ref THEN m.g ELSE e.txt)
                 \o Expand(repl, j + e.len, m)

RECURSIVE SubFrom(_, _, _, _)
\* the tail of pattern.sub(repl, s) from position pos: every non-overlapping
\* match, left to right, is replaced by the expanded template
SubFrom(re, repl, s, pos) ==
    LET m == Search(re, s, pos)
    IN IF ~m.ok THEN SubSeq(s, pos, Len(s))
       ELSE SubSeq(s, pos, m.start - 1) \o Expand(repl, 1, m) \o SubFrom(re, repl, s, m.end)

\* re.sub(pattern, repl, s), count = 0, for a template that parses
Sub(re, repl, s) == SubFrom(re, repl, s, 1)

\* `needle in s`
Contains(s, needle) == Search(<<Lit(needle)>>, s, 1).ok

(***************************************************************************)
(* Inputs: a file is a concatenation of at most MaxFrags text fragments.   *)
(***************************************************************************)
MaxFragsA == 3
MaxRunsA == 2

RECURSIVE Concat(_, _, _)
\* frags[ix[k]] \o ... \o frags[ix[Len(ix)]]
Concat(frags, ix, k) ==
    IF k > Len(ix) THEN "" ELSE frags[ix[k]] \o Concat(frags, ix, k + 1)

Texts(frags, maxFrags) ==
    { Concat(frags, ix, 1) : ix \in UNION { [1..n -> 1..Len(frags)] : n \in 0..maxFrags } }

FragsA ==
    << "const apiKeysList = await listApiKeys(ctx.org.id);",
       "type WebhookEventType = \"a\" | \"b\"\n",
       "apiKeys",
       "webhooks, ",
       ",",
       "\n  return {};\n" >>

ContentsA == Texts(FragsA, MaxFragsA)

(***************************************************************************)
(* Script A: clean-integrations.py                                         *)
(***************************************************************************)
LoaderLine == "const apiKeysList = await listApiKeys(ctx.org.id);"
LoaderComment == "// DIVE-031: Removed API keys loading"
MsgSuccess == "Successfully removed API keys and webhooks code from integrations.tsx"
MsgNoChange == "No changes made - patterns may have already been removed"

Lazy == Rep("any", 0, -1, FALSE)      \* .*?  under re.DOTALL
Spaces == Rep("space", 0, -1, TRUE)   \* \s*

\* the (pattern, replacement) pairs of main(), in the order they are applied
RulesA ==
    << [re |-> <<Lit("type WebhookEventType = "), Lazy, Lit(";")>>,
        repl |-> "// DIVE-031: Removed WebhookEventType"],
       [re |-> <<Lit("interface ApiKeyPermissions {"), Lazy, Lit("}")>>,
        repl |-> "// DIVE-031: Removed ApiKeyPermissions interface"],
       [re |-> <<Lit("interface ApiKeyDisplay {"), Lazy, Lit("}")>>,
        repl |-> "// DIVE-031: Removed ApiKeyDisplay interface"],
       [re |-> <<Lit(LoaderLine)>>, repl |-> LoaderComment],
       [re |-> <<Lit("const webhooksList = await listWebhooks(ctx.org.id);")>>,
        repl |-> "// DIVE-031: Removed webhooks loading"],
       [re |-> <<Lit("apiKeys: apiKeysList,")>>, repl |-> "// DIVE-031: Removed apiKeys"],
       [re |-> <<Lit("webhooks: webhooksList,")>>, repl |-> "// DIVE-031: Removed webhooks"],
       [re |-> <<Lit("webhookEvents: WEBHOOK_EVENTS,")>>,
        repl |-> "// DIVE-031: Removed webhookEvents"],
       [re |-> <<Lit("webhookEventDescriptions: WEBHOOK_EVENT_DESCRIPTIONS,")>>,
        repl |-> "// DIVE-031: Removed webhookEventDescriptions"],
       [re |-> <<Lit("// API Key actions"), Lazy,
                 Lit("if (intent === \"revokeApiKey\") {"), Lazy, Lit("}")>>,
        repl |-> "// DIVE-031: Removed API key action handlers"],
       [re |-> <<Lit("if (intent === \"createWebhook\") {"), Lazy,
                 Lit("if (intent === \"regenerateWebhookSecret\") {"), Lazy, Lit("}")>>,
        repl |-> "// DIVE-031: Removed webhook action handlers"],
       [re |-> <<Lit("apiKeys,"), Spaces>>, repl |-> ""],
       [re |-> <<Lit("webhooks,"), Spaces>>, repl |-> ""],
       [re |-> <<Lit("webhookEvents,"), Spaces>>, repl |-> ""],
       [re |-> <<Lit("webhookEventDescriptions,"), Spaces>>, repl |-> ""] >>

RECURSIVE ApplyRules(_, _, _)
\* content = re.sub(...) for rules k, k+1, ... in order
ApplyRules(rules, k, text) ==
    IF k > Len(rules) THEN text
    ELSE ApplyRules(rules, k + 1, Sub(rules[k].re, rules[k].repl, text))

\* lines 17-78 of main(): the text after all substitutions
Substitute(text) == ApplyRules(RulesA, 1, text)

\* a faulty variant of line 81: the comparison is dropped and main always writes
ChangedA_Always(new, old) == TRUE

\* line 81: content != original_content
ChangedA(new, old) == new # old

(***************************************************************************)
(* Script B: fix-inline-mocks.py                                           *)
(***************************************************************************)
Any0 == Rep("notbrace", 0, -1, TRUE)   \* [^}]*

\* lines 12-18: the old inline mock structure
old_pattern ==
    << Lit("vi.mocked(orgContext.requireOrgContext).mockResolvedValue({"), Any0,
       Lit("tenant:"), Spaces, Lit("{"), Rep("notbrace", 1, -1, TRUE), Lit("},"), Any0,
       Lit("organizationId:"), Spaces,
       Open, Rep("notcommaspace", 1, -1, TRUE), Close,
       Rep("comma", 0, 1, TRUE), Any0,
       Lit("}"), Spaces, Lit("as"), Rep("space", 1, -1, TRUE), Lit("any);") >>

\* line 44: const mockOrganizationId = (["\'][^"\']+["\']);
org_id_var_pattern ==
    << Lit("const mockOrganizationId = "),
       Open, Rep("quote", 1, 1, TRUE), Rep("notquote", 1, -1, TRUE), Rep("quote", 1, 1, TRUE), Close,
       Lit(";") >>

DefaultOrgId == "\"org-uuid-123\""

TemplateHead ==
       "vi.mocked(orgContext.requireOrgContext).mockResolvedValue({\n"
       \o "      org: { id: "

TemplateTail ==
       ", name: \"Test Org\", slug: \"test\", createdAt: new Date() },\n"
       \o "      user: { id: \"user-1\", email: \"owner@example.com\", name: \"Owner\" },\n"
       \o "      session: { id: \"session-1\" },\n"
       \o "      membership: { id: \"member-1\", role: \"owner\" },\n"
       \o "      subscription: null,\n"
       \o "      limits: {\n"
       \o "        customers: 50, bookingsPerMonth: 100, tours: 10, teamMembers: 1,\n"
       \o "        hasPOS: true, hasEquipmentRentals: true, hasAdvancedReports: false, hasEmailNotifications: false,\n"
       \o "      },\n"
       \o "      usage: { customers: 0, tours: 0, bookingsThisMonth: 0 },\n"
       \o "      canAddCustomer: true, canAddTour: true, canAddBooking: true, isPremium: false,\n"
       \o "    } as any);"

\* lines 20-32 and 56: new_template.format(org_id=org_id)
new_template(id) == TemplateHead \o id \o TemplateTail

\* a faulty variant of line 40: the marker test is dropped
HasMarker_Dropped(text) == TRUE

\* line 40: the marker test
HasMarker(text) == ~(~Contains(text, "tenant: { id:") /\ ~Contains(text, "tenant: {"))

\* a faulty variant of lines 44-53: the id captured from the block is
\* preferred to the mockOrganizationId assignment
OrgIdOf_BlockFirst(text) ==
    LET org_id_var == Search(org_id_var_pattern, text, 1)
        org_id_match == Search(old_pattern, text, 1)
    IN IF org_id_match.ok THEN org_id_match.g
       ELSE IF org_id_var.ok THEN org_id_var.g
       ELSE DefaultOrgId

\* lines 44-53: the org id, by precedence
OrgIdOf(text) ==
    LET org_id_var == Search(org_id_var_pattern, text, 1)
        org_id_match == Search(old_pattern, text, 1)
    IN IF org_id_var.ok THEN org_id_var.g
       ELSE IF org_id_match.ok THEN org_id_match.g
       ELSE DefaultOrgId

\* line 56: old_pattern.sub raises re.error for this org id
SubRaises(id) == TemplateError(new_template(id), 1, 1)

\* a faulty variant of line 56: sub(..., count=1), only the first match
Rewritten_FirstOnly(text, id) ==
    LET m == Search(old_pattern, text, 1)
    IN IF ~m.ok THEN text
       ELSE SubSeq(text, 1, m.start - 1) \o Expand(new_template(id), 1, m)
              \o SubSeq(text, m.end, Len(text))

\* line 56: old_pattern.sub(new_template.format(org_id=org_id), content)
Rewritten(text, id) == Sub(old_pattern, new_template(id), text)

\* a faulty variant of line 58: the comparison is dropped
ChangedB_Always(new, old) == TRUE

\* line 58: new_content != content
ChangedB(new, old) == new # old

MaxFragsB == 2
MaxFiles == 2

FragsB ==
    << "const mockOrganizationId = \"org-42\";\n",
       "const mockOrganizationId = \"acme\\\\dive\";\n",
       "const mockOrganizationId = \"org-\\u00e9\";\n",
       "vi.mocked(orgContext.requireOrgContext).mockResolvedValue({ tenant: { id: \"t1\" }, organizationId: \"org-1\" } as any);\n",
       "vi.mocked(orgContext.requireOrgContext).mockResolvedValue({\n  tenant: { id: 2 },\n  organizationId: mockOrgId,\n} as any);\n",
       "vi.mocked(orgContext.requireOrgContext).mockResolvedValue({ tenant:{ id: 3 }, organizationId: \"org-3\" } as any);\n",
       "const ctx = { tenant: { id: \"t\" } };\n" >>

ContentsB == Texts(FragsB, MaxFragsB)

\* lines 44-53: which branch chose org_id
OrgIdSource(text) ==
    IF Search(org_id_var_pattern, text, 1).ok THEN "var"
    ELSE IF Search(old_pattern, text, 1).ok THEN "block"
    ELSE "default"

\* lines 59-60: what a failed write can leave on disk: open() raised (the old
\* text), write() raised after open() truncated the file (nothing), or
\* close() raised after the data went out (the new text)
TornWrites(old, new) == {old, "", new}

Line(kind, arg) == [line |-> kind, arg |-> arg]

\* the record of one finished loop iteration
Done(path, kind, before, after) ==
    [file |-> path, kind |-> kind, changed |-> (after # before)]

(***************************************************************************)
(* Script A: main()                                                        *)
(***************************************************************************)
ParkedB ==
    /\ pcB = "idle" /\ files = <<>> /\ idx = 0 /\ disk0 = "" /\ disk = ""
    /\ contentB = "" /\ org_id = "" /\ new_content = "" /\ count = 0
    /\ outB = <<>> /\ opened = FALSE /\ hist = <<>>

ParkedA ==
    /\ pcA = "idle" /\ fileA = "" /\ fileA0 = "" /\ content = ""
    /\ original_content = "" /\ runsA = 0 /\ writesA = <<>> /\ outA = <<>>
    /\ afterA = <<>>

InitA ==
    /\ fileA \in ContentsA
    /\ fileA0 = fileA
    /\ pcA = "start"
    /\ content = "" /\ original_content = ""
    /\ runsA = 0 /\ writesA = <<>> /\ outA = <<>> /\ afterA = <<>>
    /\ ParkedB

\* lines 12-15: read the file
A_Read ==
    /\ pcA = "start" /\ runsA < MaxRunsA
    /\ content' = fileA
    /\ original_content' = fileA
    /\ pcA' = "read"
    /\ UNCHANGED <<fileA, fileA0, runsA, writesA, outA, afterA, varsB>>

\* lines 17-78: the substitutions, in order
A_Substitute ==
    /\ pcA = "read"
    /\ content' = Substitute(content)
    /\ pcA' = "subst"
    /\ UNCHANGED <<fileA, fileA0, original_content, runsA, writesA, outA, afterA, varsB>>

\* lines 81-84: the text changed: overwrite and report
A_WriteBack ==
    /\ pcA = "subst"
    /\ ChangedA(content, original_content)
    /\ fileA' = content
    /\ writesA' = Append(writesA, 1)
    /\ outA' = Append(outA, MsgSuccess)
    /\ afterA' = Append(afterA, content)
    /\ runsA' = runsA + 1
    /\ pcA' = "start"
    /\ UNCHANGED <<fileA0, content, original_content, varsB>>

\* lines 85-86: nothing changed: report only
A_NoChange ==
    /\ pcA = "subst"
    /\ ~ChangedA(content, original_content)
    /\ writesA' = Append(writesA, 0)
    /\ outA' = Append(outA, MsgNoChange)
    /\ afterA' = Append(afterA, fileA)
    /\ runsA' = runsA + 1
    /\ pcA' = "start"
    /\ UNCHANGED <<fileA, fileA0, content, original_content, varsB>>

NextA == A_Read \/ A_Substitute \/ A_WriteBack \/ A_NoChange

SpecA == InitA /\ [][NextA]_vars

(***************************************************************************)
(* Script B: the module body.  disk0 and disk are the text of file_path    *)
(* (files[idx]) as the iteration found it and as it is now; the script     *)
(* opens no other file, and what a file holds is drawn when the iteration  *)
(* reaches it.  The locals content, org_id and new_content are assigned    *)
(* before they are read in every iteration, so the loop header clears      *)
(* them.                                                                   *)
(***************************************************************************)
InitB ==
    /\ files \in { [i \in 1..n |-> i] : n \in 0..MaxFiles }   \* line 9
    /\ count = 0                                                \* line 34
    /\ idx = 1
    /\ pcB = "loop"
    /\ disk0 = "" /\ disk = ""
    /\ contentB = "" /\ org_id = "" /\ new_content = ""
    /\ outB = <<>> /\ opened = FALSE /\ hist = <<>>
    /\ ParkedA

\* a faulty variant of lines 64-65: the error is logged and then ends the run
Except_Aborts(before, after) ==
    /\ outB' = Append(outB, Line("Error", files[idx]))
    /\ hist' = Append(hist, Done(files[idx], "error", before, after))
    /\ pcB' = "done"
    /\ UNCHANGED count

\* the except clause, lines 64-65: log the error with the path
Except(before, after) ==
    /\ outB' = Append(outB, Line("Error", files[idx]))
    /\ hist' = Append(hist, Done(files[idx], "error", before, after))
    /\ pcB' = "next"
    /\ UNCHANGED count

\* lines 37-38: the file is read
B_Read ==
    /\ pcB = "loop" /\ idx <= Len(files)
    /\ \E c \in ContentsB : disk0' = c /\ disk' = c /\ contentB' = c
    /\ pcB' = "read"
    /\ UNCHANGED <<files, idx, org_id, new_content, count, outB, opened, hist, varsA>>

\* lines 37-38 raise (the file cannot be opened or decoded)
B_ReadFail ==
    /\ pcB = "loop" /\ idx <= Len(files)
    /\ \E c \in ContentsB : disk0' = c /\ disk' = c /\ Except(c, c)
    /\ UNCHANGED <<files, idx, contentB, org_id, new_content, opened, varsA>>

\* lines 40-41: no marker, continue
B_Skip ==
    /\ pcB = "read" /\ ~HasMarker(contentB)
    /\ hist' = Append(hist, Done(files[idx], "clean", disk0, disk))
    /\ pcB' = "next"
    /\ UNCHANGED <<files, idx, disk0, disk, contentB, org_id, new_content, count, outB, opened, varsA>>

\* lines 43-56: choose the org id and substitute
B_Transform ==
    /\ pcB = "read" /\ HasMarker(contentB)
    /\ ~SubRaises(OrgIdOf(contentB))
    /\ org_id' = OrgIdOf(contentB)
    /\ new_content' = Rewritten(contentB, org_id')
    /\ pcB' = "subst"
    /\ UNCHANGED <<files, idx, disk0, disk, contentB, count, outB, opened, hist, varsA>>

\* line 56 raises re.error (the org id is not a valid replacement template)
B_TransformFail ==
    /\ pcB = "read" /\ HasMarker(contentB)
    /\ SubRaises(OrgIdOf(contentB))
    /\ org_id' = OrgIdOf(contentB)
    /\ Except(disk0, disk)
    /\ UNCHANGED <<files, idx, disk0, disk, contentB, new_content, opened, varsA>>

\* lines 58-62: the text changed: write, report, count
B_Write ==
    /\ pcB = "subst" /\ ChangedB(new_content, contentB)
    /\ disk' = new_content
    /\ opened' = TRUE
    /\ outB' = Append(outB, Line("Fixed", files[idx]))
    /\ count' = count + 1
    /\ hist' = Append(hist, Done(files[idx], "fixed", disk0, disk'))
    /\ pcB' = "next"
    /\ UNCHANGED <<files, idx, disk0, contentB, org_id, new_content, varsA>>

\* lines 59-60 raise
B_WriteFail ==
    /\ pcB = "subst" /\ ChangedB(new_content, contentB)
    /\ \E left \in TornWrites(disk, new_content) :
         /\ disk' = left
         /\ opened' = TRUE
         /\ Except(disk0, left)
    /\ UNCHANGED <<files, idx, disk0, contentB, org_id, new_content, varsA>>

\* line 58 is false: nothing to write
B_NoChange ==
    /\ pcB = "subst" /\ ~ChangedB(new_content, contentB)
    /\ hist' = Append(hist, Done(files[idx], "clean", disk0, disk))
    /\ pcB' = "next"
    /\ UNCHANGED <<files, idx, disk0, disk, contentB, org_id, new_content, count, outB, opened, varsA>>

\* line 35: the for statement moves to the next path
B_Advance ==
    /\ pcB = "next"
    /\ idx' = idx + 1
    /\ disk0' = "" /\ disk' = ""
    /\ contentB' = "" /\ org_id' = "" /\ new_content' = "" /\ opened' = FALSE
    /\ pcB' = "loop"
    /\ UNCHANGED <<files, count, outB, hist, varsA>>

\* line 67: the final count
B_Finish ==
    /\ pcB = "loop" /\ idx > Len(files)
    /\ outB' = Append(outB, Line("Total", count))
    /\ pcB' = "done"
    /\ UNCHANGED <<files, idx, disk0, disk, contentB, org_id, new_content, count, opened, hist, varsA>>

NextB ==
    \/ B_Read \/ B_ReadFail \/ B_Skip \/ B_Transform \/ B_TransformFail
    \/ B_Write \/ B_WriteFail \/ B_NoChange \/ B_Advance \/ B_Finish

SpecB == InitB /\ [][NextB]_vars

\* a run in which the glob yields at most one file
InitOneFile == InitB /\ Len(files) <= 1

SpecOneFile == InitOneFile /\ [][NextB]_vars

(***************************************************************************)
(* Properties                                                              *)
(***************************************************************************)
RECURSIVE CountFrom(_, _, _)
\* the number of non-overlapping matches of re in s[pos..], left to right
CountFrom(re, s, pos) ==
    LET m == Search(re, s, pos)
    IN IF m.ok THEN 1 + CountFrom(re, s, m.end) ELSE 0

LegacyBlocks(text) == CountFrom(old_pattern, text, 1)
NewBlocks(text) == CountFrom(<<Lit(TemplateTail)>>, text, 1)

NumFixed == Cardinality({ i \in 1..Len(hist) : hist[i].kind = "fixed" })
FixedLines == { i \in 1..Len(outB) : outB[i].line = "Fixed" }
ErrorLines == { i \in 1..Len(outB) : outB[i].line = "Error" }
Reported(kind, path) == \E i \in 1..Len(outB) : outB[i] = Line(kind, path)

\* the iteration on files[idx] is over
IterationOver == pcB = "next"

\* the text of the first mockOrganizationId assignment, "" when there is none
VarLiteral(text) ==
    LET v == Search(org_id_var_pattern, text, 1) IN IF v.ok THEN v.g ELSE ""

\* the organizationId of the first legacy block, "" when there is none
BlockId(text) ==
    LET b == Search(old_pattern, text, 1) IN IF b.ok THEN b.g ELSE ""

\* the org id the precedence rule names for a file holding a legacy block
IdByPrecedence(text) ==
    IF VarLiteral(text) # "" THEN VarLiteral(text) ELSE BlockId(text)

\* C1: Script A is idempotent: the second run of main leaves the file as the
\* first run left it, writes nothing and prints "No changes made".
C1_Idempotent ==
    runsA >= 2 =>
        /\ afterA[2] = afterA[1]
        /\ writesA[2] = 0
        /\ outA[2] = MsgNoChange

\* C8: whenever the file holds the loader line, after main the comment is in
\* the file, the loader line is not, the file changed and the success
\* message was printed.
C8_LoaderLineReplaced ==
    (runsA >= 1 /\ Contains(fileA0, LoaderLine)) =>
        /\ Contains(afterA[1], LoaderComment)
        /\ ~Contains(afterA[1], LoaderLine)
        /\ afterA[1] # fileA0
        /\ outA[1] = MsgSuccess

\* C9: main overwrites the file exactly when the substituted text differs
\* from the text read; it prints the success message exactly when it writes
\* and "No changes made" otherwise, and then the file was not opened for
\* writing and holds what it held.
C9_WriteIffChanged ==
    (pcA = "start" /\ runsA >= 1) =>
      /\ content = Substitute(original_content)
      /\ IF content # original_content
         THEN writesA[runsA] = 1 /\ outA[runsA] = MsgSuccess /\ fileA = content
         ELSE writesA[runsA] = 0 /\ outA[runsA] = MsgNoChange /\ fileA = original_content

\* a first run that wrote followed by a second run that did not
C9_Witness ==
    /\ pcA = "start" /\ runsA = 2
    /\ writesA = <<1, 0>>
    /\ outA = <<MsgSuccess, MsgNoChange>>
    /\ fileA # fileA0

\* C2: a file without the marker 'tenant: {' is never opened for writing,
\* keeps its text, is not reported as fixed and does not add to the count
\* (stated as: whatever was touched, reported or counted holds the marker).
C2_NoMarkerUntouched ==
    /\ count = NumFixed
    /\ IterationOver =>
         ((opened \/ disk # disk0 \/ hist[idx].kind = "fixed" \/ Reported("Fixed", files[idx]))
              => Contains(disk0, "tenant: {"))

\* a file that holds a legacy block (written `tenant:{`) but not the marker
\* went through the loop untouched
C2_Witness ==
    /\ IterationOver
    /\ hist[idx].kind = "clean" /\ disk = disk0 /\ ~opened
    /\ ~Contains(disk0, "tenant: {")
    /\ LegacyBlocks(disk0) >= 1

\* C3: in a rewritten file that held the marker and a legacy block, the new
\* block holds the id the precedence names: the mockOrganizationId literal
\* if there is one, else the organizationId captured from the block.
C3_OrgIdPrecedence ==
    (IterationOver /\ hist[idx].kind = "fixed" /\ HasMarker(contentB)
       /\ LegacyBlocks(contentB) >= 1) =>
        Contains(disk, "org: { id: " \o IdByPrecedence(contentB) \o ", name: \"Test Org\"")

\* C3, the part that holds: the id that fills the template is chosen by the
\* precedence (assignment, else first block, else the default).
C3_SelectionByPrecedence ==
    pcB = "subst" =>
        org_id = (IF VarLiteral(contentB) # "" THEN VarLiteral(contentB)
                  ELSE IF BlockId(contentB) # "" THEN BlockId(contentB)
                  ELSE DefaultOrgId)

C5_ErrorsIsolated ==
    /\ Len(hist) <= Len(files)
    /\ \A i \in 1..Len(hist) :
         /\ hist[i].file = files[i]
         /\ (hist[i].kind = "error") = Reported("Error", files[i])
         /\ hist[i].kind = "error" => ~Reported("Fixed", files[i])
    /\ count = NumFixed
    /\ IterationOver =>
         /\ hist[idx].kind = "fixed" => disk = new_content /\ new_content # disk0
         /\ hist[idx].kind = "clean" => disk = disk0 /\ ~opened
    /\ pcB = "done" =>
         /\ Len(hist) = Len(files)
         /\ outB[Len(outB)] = Line("Total", count)

\* the first file failed, the second was fixed, and the count was printed
C5_Witness ==
    /\ pcB = "done"
    /\ Len(hist) >= 2
    /\ hist[1].kind = "error" /\ hist[2].kind = "fixed"
    /\ outB[Len(outB)] = Line("Total", 1)

\* C6 as claimed: the count printed at the end is the number of files whose
\* text changed on disk.
C6_CountEqualsChangedFiles ==
    pcB = "done" => count = Cardinality({ i \in 1..Len(hist) : hist[i].changed })

\* C6 as the code has it: a file is opened for writing only when the new
\* text differs from the text read; after every iteration the count is the
\* number of "Fixed" lines, one per file written in full; the count printed
\* at the end is the number of files changed by a completed write (a file
\* whose write raised may be left changed and is not counted).
C6_CountEqualsFixedFiles ==
    /\ count = NumFixed
    /\ count = Cardinality(FixedLines)
    /\ \A i \in 1..Len(hist) :
         /\ (hist[i].kind = "fixed") = Reported("Fixed", files[i])
         /\ hist[i].kind = "fixed" => hist[i].changed
         /\ hist[i].kind = "clean" => ~hist[i].changed
    /\ opened => new_content # contentB
    /\ pcB = "done" =>
         /\ outB[Len(outB)] = Line("Total", count)
         /\ count = Cardinality({ i \in 1..Len(hist) :
                                    hist[i].changed /\ hist[i].kind # "error" })

\* a run that fixed a file and left another one changed by a failed write
C6_Witness ==
    /\ pcB = "done"
    /\ count >= 1
    /\ \E i \in 1..Len(hist) : hist[i].kind = "error" /\ hist[i].changed

\* the file of the end-to-end example: its mockOrganizationId is "org-42"
\* and it holds the marker and a legacy block
Example42(text) ==
    /\ VarLiteral(text) = "\"org-42\""
    /\ HasMarker(text)
    /\ LegacyBlocks(text) >= 1

C10_DefaultNeverWritten ==
    /\ (pcB = "subst" /\ OrgIdSource(contentB) = "default") => new_content = contentB
    /\ (IterationOver /\ contentB # "" /\ HasMarker(contentB)
          /\ OrgIdSource(contentB) = "default") =>
         /\ hist[idx].kind = "clean" /\ disk = disk0
         /\ ~Reported("Error", files[idx])
    /\ (IterationOver /\ hist[idx].kind = "fixed") =>
         /\ OrgIdSource(contentB) # "default"
         /\ Contains(disk, "org: { id: " \o IdByPrecedence(contentB) \o ", name: \"Test Org\"")

\* C10, the part that holds: a file for which the default id is chosen is left
\* as it was, is not counted, and no error is logged for it.
C10_DefaultLeavesFile ==
    /\ (pcB = "subst" /\ OrgIdSource(contentB) = "default") =>
         org_id = DefaultOrgId /\ new_content = contentB
    /\ (IterationOver /\ org_id = DefaultOrgId /\ OrgIdSource(contentB) = "default") =>
         /\ hist[idx].kind = "clean" /\ disk = disk0 /\ ~opened
         /\ ~Reported("Error", files[idx]) /\ ~Reported("Fixed", files[idx])

C10_DefaultWitness ==
    IterationOver /\ org_id = DefaultOrgId /\ OrgIdSource(contentB) = "default"


====
